---------------------------- MODULE Spec2Model ----------------------------
(***************************************************************************)
(* Model of the go-reddit streaming code: the poll/stream goroutine of     *)
(* doStreamWithCustomIDGet, of StreamService.Reported, of InboxUnread and  *)
(* of the first definition of StreamService.Posts (stream.go), the         *)
(* sync.Once guarded stop closure, the stream options (streamer.go) and    *)
(* the highWaterMark recency stack (set.go).                               *)
(***************************************************************************)
EXTENDS Integers, Sequences, FiniteSets, TLC

\* ------------------------------------------------------------------ bounds
MaxFetches   == 3   \* fetches the engine may perform when the budget is unbounded
MaxRepFetches == 2  \* the same, for the Reported stream
MaxBudget    == 2   \* largest MaxRequests an option sets
MaxStopCalls == 2   \* external calls of the stop function
itemLimit    == 2   \* stream.go: var itemLimit (100), scaled down
MaxCap       == 2   \* largest capacity of a highWaterMark
MaxSeeds     == 3   \* longest seed list given to NewHighWaterMark
MaxOps       == 4   \* Push/Pop/Top calls on one highWaterMark
MaxLongRequests == 21 \* MaxRequests of the long-running stream (rollover)
MaxOpts      == 3   \* options applied to one streamConfig

\* --------------------------------------------------------------- constants
defaultStreamInterval == 5   \* const defaultStreamInterval, in seconds
defaultHwmCap         == 10  \* NewStreamConfig: NewHighWaterMark(10)

VARIABLES
    \* ---- stream engine (stream.go)
    variant,       \* which stream function runs: "doStream", "Reported",
                   \* "Inbox", or "Posts", the first definition of
                   \* StreamService.Posts
    opts,          \* the options the stream was started with
    streamConfig,  \* the streamConfig struct the goroutine reads and mutates
    pc,            \* position of the engine goroutine
    n,             \* var n int, the request counter
    oldIDs, newIDs,\* the two generations of the identifier set
    items,         \* the page being ranged over (posts, for Reported)
    comments,      \* Reported: the comments of the page
    idx,           \* index of the item being ranged over
    tickC,         \* ticker.C holds a tick (buffer of one)
    tickerStopped, \* ticker.Stop() was called
    ctxDone,       \* ctx.Done() is closed
    closes,        \* per channel, the number of close() calls made on it
    onceDone,      \* sync.Once: done flag
    onceM,         \* sync.Once: holder of the mutex, or "none"
    stopPc,        \* per caller of stop(), its position inside once.Do
    stopStep,      \* statement the holder of the mutex is at inside stop's body
    stopCalls,     \* external stop() calls made so far
    \* ---- observations of the engine (history)
    fetches,       \* invocations of the fetch function
    fetchLog,      \* outcome of each fetch, "ok" or "err"
    firstPage,     \* page returned by the first fetch, when it succeeded
    sentPrev,      \* sends completed in earlier ticks
    sentTick,      \* sends completed in the current tick
    prevTick,      \* sends completed in the tick before the current one
    errsSent,      \* errors received from errsCh
    recorded,      \* identifiers added to the identifier set, in order
    ticksSeen,     \* ticks the goroutine has received from ticker.C
    cursors,       \* the pagination cursor each fetch was invoked with
    seenAtFetch,   \* the identifiers in oldIDs or newIDs when the last fetch returned
    sendLog,       \* the sends completed, in order: dedup identifier, and the
                   \* number of identifiers recorded by then
    \* ---- highWaterMark (set.go)
    marks, cap,    \* highWaterMark.marks, highWaterMark.cap
    seeds,         \* items given to NewHighWaterMark
    pushed,        \* identifiers pushed since construction
    popLog,        \* values returned by Pop since construction
    lastOp,        \* the last call, its result and the marks before it
    phase,         \* "push" until the first Pop, "pop" until the next Push, then "mixed"
    ops,           \* number of calls made
    \* ---- stream options (streamer.go)
    cfg,           \* the streamConfig under construction
    cfgBefore,     \* cfg before the last option was applied
    optLog         \* the options applied so far

engineVars == <<variant, opts, streamConfig, pc, n, oldIDs, newIDs, items,
                comments, idx, tickC, tickerStopped, ctxDone, closes,
                onceDone, onceM, stopPc, stopStep, stopCalls>>
histVars   == <<fetches, fetchLog, firstPage, sentPrev, sentTick, prevTick,
                errsSent, recorded, ticksSeen, cursors, seenAtFetch, sendLog>>
hwmVars    == <<marks, cap, seeds, pushed, popLog, lastOp, phase, ops>>
cfgVars    == <<cfg, cfgBefore, optLog>>
vars       == <<engineVars, histVars, hwmVars, cfgVars>>

\* ======================================================== highWaterMark
HwmIDs == {"A", "B", "C"}

SeqsUpTo(S, k) == UNION {[1..m -> S] : m \in 0..k}

\* The last k elements of s (all of s when it is shorter).
LastN(s, k) == IF Len(s) <= k THEN s ELSE SubSeq(s, Len(s) - k + 1, Len(s))

Reverse(s) == [i \in 1..Len(s) |-> s[Len(s) + 1 - i]]

\* highWaterMark.Len
hwmLen(m) == Len(m)

\* Push: the capacity test "uint32(h.Len()) == h.cap"
PushAtCap_GE(m, c) == hwmLen(m) >= c
PushAtCap(m, c) == hwmLen(m) = c

\* Push at capacity slices h.marks[1:h.Len()]: out of range on an empty slice
PushPanics(m, c) == PushAtCap(m, c) /\ hwmLen(m) = 0

\* Push: the new marks
PushMarks_NoDrop(m, c, item) == Append(m, item)
PushMarks(m, c, item) ==
    IF PushAtCap(m, c) THEN Append(SubSeq(m, 2, hwmLen(m)), item)
                       ELSE Append(m, item)

\* Pop: "if len(h.marks) == 0 { return "" }"
PopEmptyGuard_Missing(m) == FALSE
PopEmptyGuard(m) == hwmLen(m) = 0

\* Pop past the guard indexes h.marks[h.Len()-1]: out of range on an empty slice
PopPanics(m) == ~PopEmptyGuard(m) /\ hwmLen(m) = 0

\* Pop: the returned value and the new marks
PopRet(m) == IF PopEmptyGuard(m) THEN "" ELSE m[hwmLen(m)]
PopMarks(m) == IF PopEmptyGuard(m) THEN m ELSE SubSeq(m, 1, hwmLen(m) - 1)

\* Top: "return h.marks[h.Len()-1]", with no test for an empty slice: index -1
\* is out of range
TopPanics(m) == hwmLen(m) = 0
TopRet(m) == m[hwmLen(m)]

Call(name, panicked, ret, before, item) ==
    [call |-> name, panicked |-> panicked, ret |-> ret, before |-> before,
     item |-> item]

\* NewHighWaterMark(cap, items...)
NewHighWaterMark(c, its) ==
    /\ cap = c
    /\ seeds = its
    /\ marks = its
    /\ pushed = <<>>
    /\ popLog = <<>>
    /\ lastOp = Call("new", FALSE, "", <<>>, "")
    /\ phase = "push"
    /\ ops = 0

HwmAlive == ~lastOp.panicked

Push(item) ==
    /\ HwmAlive
    /\ ops < MaxOps
    /\ ops' = ops + 1
    /\ IF PushPanics(marks, cap)
       THEN /\ lastOp' = Call("push", TRUE, FALSE, marks, item)
            /\ UNCHANGED <<marks, pushed, phase>>
       ELSE /\ marks' = PushMarks(marks, cap, item)
            /\ pushed' = Append(pushed, item)
            /\ lastOp' = Call("push", FALSE, PushAtCap(marks, cap), marks, item)
            /\ phase' = IF phase = "push" THEN "push" ELSE "mixed"
    /\ UNCHANGED <<cap, seeds, popLog>>

Pop ==
    /\ HwmAlive
    /\ ops < MaxOps
    /\ ops' = ops + 1
    /\ IF PopPanics(marks)
       THEN /\ lastOp' = Call("pop", TRUE, "", marks, "")
            /\ UNCHANGED <<marks, popLog, phase>>
       ELSE /\ marks' = PopMarks(marks)
            /\ popLog' = Append(popLog, PopRet(marks))
            /\ lastOp' = Call("pop", FALSE, PopRet(marks), marks, "")
            /\ phase' = IF phase = "push" THEN "pop" ELSE phase
    /\ UNCHANGED <<cap, seeds, pushed>>

Top ==
    /\ HwmAlive
    /\ ops < MaxOps
    /\ ops' = ops + 1
    /\ lastOp' = IF TopPanics(marks) THEN Call("top", TRUE, "", marks, "")
                  ELSE Call("top", FALSE, TopRet(marks), marks, "")
    /\ UNCHANGED <<marks, cap, seeds, pushed, popLog, phase>>

\* ======================================================== stream options
Durations == {-1, 0, 1}          \* time.Duration arguments, in seconds
Budgets   == -1..MaxBudget       \* arguments of WithStreamMaxRequests
FullIDs   == {"t3_x"}
GetFuncs  == {"f"}

\* NewStreamConfig()
NewStreamConfig ==
    [Interval       |-> defaultStreamInterval,
     DiscardInitial |-> FALSE,
     MaxRequests    |-> 0,
     UseDumbLogic   |-> FALSE,
     HighWaterMark  |-> [cap |-> defaultHwmCap, marks |-> <<>>],
     GetFunc        |-> "nil"]

\* "if v > 0 { c.Interval = v }"
WithStreamInterval_GE(c, v) == IF v >= 0 THEN [c EXCEPT !.Interval = v] ELSE c
WithStreamInterval(c, v) == IF v > 0 THEN [c EXCEPT !.Interval = v] ELSE c

WithStreamDiscardInitial(c) == [c EXCEPT !.DiscardInitial = TRUE]

\* "if v > 0 { c.MaxRequests = v }"
WithStreamMaxRequests(c, v) == IF v > 0 THEN [c EXCEPT !.MaxRequests = v] ELSE c

\* c.HighWaterMark = NewHighWaterMark(10, v)
WithStartFromFullID(c, v) ==
    [c EXCEPT !.HighWaterMark = [cap |-> defaultHwmCap, marks |-> <<v>>]]

\* c.HighWaterMark = NewHighWaterMark(capacity, items...)
WithHighWaterMark(c, capacity, its) ==
    [c EXCEPT !.HighWaterMark = [cap |-> capacity, marks |-> its]]

WithGetFunc(c, f) == [c EXCEPT !.GetFunc = f]

WithDumbLogic(c) == [c EXCEPT !.UseDumbLogic = TRUE]

\* An option as the caller wrote it: its name and its arguments.
Opt(name, v, its) == [name |-> name, v |-> v, its |-> its]

\* "for _, opt := range opts { opt(streamConfig) }": one option is applied
ApplyOpt(o, c) ==
    /\ Len(optLog) < MaxOpts
    /\ cfgBefore' = cfg
    /\ cfg' = c
    /\ optLog' = Append(optLog, o)
    /\ UNCHANGED <<engineVars, histVars, hwmVars>>

OptInterval(v) ==
    ApplyOpt(Opt("WithStreamInterval", v, <<>>), WithStreamInterval(cfg, v))

OptDiscardInitial ==
    ApplyOpt(Opt("WithStreamDiscardInitial", 0, <<>>), WithStreamDiscardInitial(cfg))

OptMaxRequests(v) ==
    ApplyOpt(Opt("WithStreamMaxRequests", v, <<>>), WithStreamMaxRequests(cfg, v))

OptStartFromFullID(v) ==
    ApplyOpt(Opt("WithStartFromFullID", 0, <<v>>), WithStartFromFullID(cfg, v))

OptHighWaterMark(capacity, its) ==
    ApplyOpt(Opt("WithHighWaterMark", capacity, its),
             WithHighWaterMark(cfg, capacity, its))

OptGetFunc(f) ==
    ApplyOpt(Opt("WithGetFunc", 0, <<f>>), WithGetFunc(cfg, f))

OptDumbLogic ==
    ApplyOpt(Opt("WithDumbLogic", 0, <<>>), WithDumbLogic(cfg))

ConfigUnused ==
    /\ cfg = NewStreamConfig
    /\ cfgBefore = NewStreamConfig
    /\ optLog = <<>>

\* ========================================================= stream engine
IDs == {"a", "b"}

\* The things a fetch returns: an identifier and, for reported content, the
\* report count.
Thing(id, k) == [ID |-> id, NumReports |-> k]
Things == {Thing(id, 0) : id \in IDs}

\* Pages of at most k things, no identifier twice.
PagesOf(S, k) ==
    {p \in SeqsUpTo(S, k) : \A i, j \in 1..Len(p) : p[i].ID = p[j].ID => i = j}

\* doStream: customIDGet is t.GetID()
GetID(t) == t.ID

\* id := customIDGet(item), for each item of the page
IDsOf(its) == [i \in 1..Len(its) |-> GetID(its[i])]

ExtCallers == {"u1", "u2"}
Callers == ExtCallers \cup {"engine"}

\* The channels stop() closes, in the order it closes them.
Chans(v) ==
    CASE v = "Reported" -> <<"postsCh", "commentsCh", "errsCh">>
      [] v = "Posts"    -> <<"postsCh", "errsCh">>
      [] v = "Inbox"    -> <<"commentsCh", "dmsCh", "errsCh">>
      [] OTHER          -> <<"commentsCh", "errsCh">>

\* The stream functions made of one loop over one page per tick.
OneListVariants == {"doStream", "Posts"}

\* The channel such a function sends its items on.
ItemChan(v) == IF v = "Posts" THEN "postsCh" ELSE "commentsCh"

\* infinite := streamConfig.MaxRequests == 0
infinite(max) == max = 0

\* "!infinite && n >= streamConfig.MaxRequests"
BudgetExhausted_GT(nn, max) == ~infinite(max) /\ nn > max
BudgetExhausted(nn, max) == ~infinite(max) /\ nn >= max

\* "len(newIDs) >= itemLimit*10": the size at which newIDs becomes oldIDs
rolloverAt == itemLimit * 10

\* One iteration of "for _, item := range items" up to its send, break or end.
\* ids[i] is the dedup identifier of the i-th item of the page.
\* send = TRUE: the goroutine is at "ch <- item"; otherwise the loop is left.
\* rec holds the identifier the iteration added to the set, if it added one.
LoopStep_RollBeforeAdd(ids, i, old, new, disc) ==
    IF i > Len(ids)
    THEN [old |-> old, new |-> new, disc |-> disc, send |-> FALSE, rec |-> <<>>]
    ELSE LET id   == ids[i]
             new1 == new \cup {id}
             roll == Cardinality(new1) >= rolloverAt
         IN  IF id \in new \/ id \in old
             THEN [old |-> old, new |-> new, disc |-> disc, send |-> FALSE,
                   rec |-> <<>>]
             ELSE [old  |-> IF roll THEN new ELSE old,
                   new  |-> IF roll THEN {} ELSE new1,
                   disc |-> FALSE,
                   send |-> ~disc,
                   rec  |-> <<id>>]

LoopStep_NoExistsTest(ids, i, old, new, disc) ==
    IF i > Len(ids)
    THEN [old |-> old, new |-> new, disc |-> disc, send |-> FALSE, rec |-> <<>>]
    ELSE LET id   == ids[i]
             new1 == new \cup {id}
             roll == Cardinality(new1) >= rolloverAt
         IN  [old  |-> IF roll THEN new1 ELSE old,
              new  |-> IF roll THEN {} ELSE new1,
              disc |-> FALSE,
              send |-> ~disc,
              rec  |-> <<id>>]

LoopStep_NewOnly(ids, i, old, new, disc) ==
    IF i > Len(ids)
    THEN [old |-> old, new |-> new, disc |-> disc, send |-> FALSE, rec |-> <<>>]
    ELSE LET id   == ids[i]
             new1 == new \cup {id}
             roll == Cardinality(new1) >= rolloverAt
         IN  IF id \in new
             THEN [old |-> old, new |-> new, disc |-> disc, send |-> FALSE,
                   rec |-> <<>>]
             ELSE [old  |-> IF roll THEN new1 ELSE old,
                   new  |-> IF roll THEN {} ELSE new1,
                   disc |-> FALSE,
                   send |-> ~disc,
                   rec  |-> <<id>>]

LoopStep_RollGT(ids, i, old, new, disc) ==
    IF i > Len(ids)
    THEN [old |-> old, new |-> new, disc |-> disc, send |-> FALSE, rec |-> <<>>]
    ELSE LET id   == ids[i]
             new1 == new \cup {id}
             roll == Cardinality(new1) > rolloverAt
         IN  IF id \in new \/ id \in old
             THEN [old |-> old, new |-> new, disc |-> disc, send |-> FALSE,
                   rec |-> <<>>]
             ELSE [old  |-> IF roll THEN new1 ELSE old,
                   new  |-> IF roll THEN {} ELSE new1,
                   disc |-> FALSE,
                   send |-> ~disc,
                   rec  |-> <<id>>]

LoopStep(ids, i, old, new, disc) ==
    IF i > Len(ids)
    THEN [old |-> old, new |-> new, disc |-> disc, send |-> FALSE, rec |-> <<>>]
    ELSE LET id   == ids[i]
             new1 == new \cup {id}
             roll == Cardinality(new1) >= rolloverAt
         IN  IF id \in new \/ id \in old
             THEN [old |-> old, new |-> new, disc |-> disc, send |-> FALSE,
                   rec |-> <<>>]
             ELSE [old  |-> IF roll THEN new1 ELSE old,
                   new  |-> IF roll THEN {} ELSE new1,
                   disc |-> FALSE,
                   send |-> ~disc,
                   rec  |-> <<id>>]

\* "ch <- item": the item the i-th iteration sends
SentItem_Reversed(its, i) == its[Len(its) + 1 - i]
SentItem(its, i) == its[i]

\* sync.Once.Do runs f only while done is unset
OnceMustRun_Always(done) == TRUE
OnceMustRun(done) == ~done

Alive == pc # "panicked"

\* The goroutine moves to p; leaving the loop runs the deferred stop().
GoTo(p) ==
    /\ pc' = p
    /\ stopPc' = IF p \in {"exit", "exitPanic"}
                 THEN [stopPc EXCEPT !["engine"] = "call"] ELSE stopPc

\* Where the goroutine goes once a tick's work is over.
AfterTick_ErrContinues ==
    IF pc = "sendErr" THEN "select"
    ELSE IF BudgetExhausted(n, streamConfig.MaxRequests) THEN "exit" ELSE "select"
AfterTick == IF BudgetExhausted(n, streamConfig.MaxRequests) THEN "exit" ELSE "select"

\* A completed send of the item whose dedup identifier is id.
Sent(id) == [id |-> id, at |-> Len(recorded)]

SetIDs(r) ==
    /\ oldIDs' = r.old
    /\ newIDs' = r.new
    /\ streamConfig' = [streamConfig EXCEPT !.DiscardInitial = r.disc]
    /\ recorded' = recorded \o r.rec

\* ---- environment
\* The runtime delivers a tick into ticker.C unless the ticker was stopped or
\* the buffer is full.
Tick ==
    /\ Alive /\ ~tickerStopped /\ ~tickC
    /\ tickC' = TRUE
    /\ UNCHANGED <<variant, opts, streamConfig, pc, n, oldIDs, newIDs, items,
                   comments, idx, tickerStopped, ctxDone, closes, onceDone,
                   onceM, stopPc, stopStep, stopCalls, histVars, hwmVars, cfgVars>>

\* The caller cancels ctx.
Cancel ==
    /\ Alive /\ ~ctxDone
    /\ ctxDone' = TRUE
    /\ UNCHANGED <<variant, opts, streamConfig, pc, n, oldIDs, newIDs, items,
                   comments, idx, tickC, tickerStopped, closes, onceDone,
                   onceM, stopPc, stopStep, stopCalls, histVars, hwmVars, cfgVars>>

\* ---- stop := func() { once.Do(func() { ticker.Stop(); close(..); close(errsCh) }) }
StopCall(c) ==
    /\ Alive /\ c \in ExtCallers
    /\ stopPc[c] = "idle" /\ stopCalls < MaxStopCalls
    /\ stopPc' = [stopPc EXCEPT ![c] = "call"]
    /\ stopCalls' = stopCalls + 1
    /\ UNCHANGED <<variant, opts, streamConfig, pc, n, oldIDs, newIDs, items,
                   comments, idx, tickC, tickerStopped, ctxDone, closes,
                   onceDone, onceM, stopStep, histVars, hwmVars, cfgVars>>

\* c returns from stop(); for the goroutine this ends it.
Return(c) ==
    /\ stopPc' = [stopPc EXCEPT ![c] = "idle"]
    /\ pc' = IF c # "engine" THEN pc
             ELSE IF pc = "exitPanic" THEN "panicked" ELSE "done"

\* once.Do: return when done, else take the mutex and run the body.
OnceDo(c) ==
    /\ Alive /\ stopPc[c] = "call"
    /\ IF OnceMustRun(onceDone)
       THEN /\ onceM = "none"
            /\ onceM' = c
            /\ stopStep' = 0
            /\ stopPc' = [stopPc EXCEPT ![c] = "body"]
            /\ UNCHANGED pc
       ELSE /\ Return(c)
            /\ UNCHANGED <<onceM, stopStep>>
    /\ UNCHANGED <<variant, opts, streamConfig, n, oldIDs, newIDs, items,
                   comments, idx, tickC, tickerStopped, ctxDone, closes,
                   onceDone, stopCalls, histVars, hwmVars, cfgVars>>

\* One statement of the body of stop: ticker.Stop(), then each close; after the
\* last close the Once is marked done and the mutex released.
StopBody(c) ==
    /\ Alive /\ stopPc[c] = "body" /\ onceM = c
    /\ LET chs == Chans(variant) IN
       IF stopStep = 0
       THEN /\ tickerStopped' = TRUE
            /\ stopStep' = 1
            /\ UNCHANGED <<closes, onceDone, onceM, stopPc, pc>>
       ELSE /\ closes' = [closes EXCEPT ![chs[stopStep]] = @ + 1]
            /\ UNCHANGED tickerStopped
            /\ IF stopStep < Len(chs)
               THEN /\ stopStep' = stopStep + 1
                    /\ UNCHANGED <<onceDone, onceM, stopPc, pc>>
               ELSE /\ onceDone' = TRUE
                    /\ onceM' = "none"
                    /\ stopStep' = 0
                    /\ Return(c)
    /\ UNCHANGED <<variant, opts, streamConfig, n, oldIDs, newIDs, items,
                   comments, idx, tickC, ctxDone, stopCalls, histVars, hwmVars, cfgVars>>

\* ---- the goroutine of doStreamWithCustomIDGet
\* select: case <-ticker.C, then n++ (in Posts, the loop's "<-ticker.C" and the
\* n++ of the next iteration). An unbounded budget is cut off after MaxFetches.
SelectTick ==
    /\ pc = "select" /\ tickC
    /\ infinite(streamConfig.MaxRequests) =>
           n < (IF variant = "Reported" THEN MaxRepFetches ELSE MaxFetches)
    /\ tickC' = FALSE
    /\ n' = n + 1
    /\ ticksSeen' = ticksSeen + 1
    /\ pc' = "fetch"
    /\ UNCHANGED <<variant, opts, streamConfig, oldIDs, newIDs, items,
                   comments, idx, tickerStopped, ctxDone, closes, onceDone,
                   onceM, stopPc, stopStep, stopCalls, fetches, fetchLog, cursors, seenAtFetch, sendLog,
                   firstPage, sentPrev, sentTick, prevTick, errsSent, recorded,
                   hwmVars, cfgVars>>

\* Posts: "for ; ; <-ticker.C { n++": the first iteration starts at once
PostsFirstIteration ==
    /\ variant = "Posts"
    /\ pc = "start"
    /\ n' = n + 1
    /\ pc' = "fetch"
    /\ UNCHANGED <<variant, opts, streamConfig, oldIDs, newIDs, items,
                   comments, idx, tickC, tickerStopped, ctxDone, closes,
                   onceDone, onceM, stopPc, stopStep, stopCalls, histVars,
                   hwmVars, cfgVars>>

\* select: case <-ctx.Done(): return
SelectCtxDone ==
    /\ variant = "doStream"
    /\ pc = "select" /\ ctxDone
    /\ GoTo("exit")
    /\ UNCHANGED <<variant, opts, streamConfig, n, oldIDs, newIDs, items,
                   comments, idx, tickC, tickerStopped, ctxDone, closes,
                   onceDone, onceM, stopStep, stopCalls, histVars, hwmVars, cfgVars>>

\* The cursor a fetch is given: getPosts, getComments and getActions build
\* "&ListOptions{Limit: itemLimit}", whose Before and After are empty.
FetchCursor == ""

NoteFetch(outcome, page, cms) ==
    /\ fetches' = fetches + 1
    /\ fetchLog' = Append(fetchLog, outcome)
    /\ firstPage' = IF fetches = 0
                    THEN [ok |-> outcome = "ok", items |-> page, comments |-> cms]
                    ELSE firstPage
    /\ sentPrev' = sentPrev \cup sentTick
    /\ prevTick' = sentTick
    /\ sentTick' = {}
    /\ cursors' = Append(cursors, FetchCursor)
    /\ seenAtFetch' = oldIDs \cup newIDs

\* getThing / getReported returns an error: the goroutine goes to "errsCh <- err"
GetThingErr ==
    /\ pc = "fetch"
    /\ NoteFetch("err", <<>>, <<>>)
    /\ pc' = "sendErr"
    /\ UNCHANGED <<variant, opts, streamConfig, n, oldIDs, newIDs, items,
                   comments, idx, tickC, tickerStopped, ctxDone, closes,
                   onceDone, onceM, stopPc, stopStep, stopCalls, errsSent,
                   recorded, ticksSeen, sendLog, hwmVars, cfgVars>>

\* getThing returns a page: range over it up to the first send or break
GetThingOk(page) ==
    /\ variant \in OneListVariants
    /\ pc = "fetch"
    /\ NoteFetch("ok", page, <<>>)
    /\ items' = page
    /\ LET r == LoopStep(IDsOf(page), 1, oldIDs, newIDs, streamConfig.DiscardInitial)
       IN  /\ SetIDs(r)
           /\ idx' = 1
           /\ GoTo(IF r.send THEN "sendItem" ELSE AfterTick)
    /\ UNCHANGED <<variant, opts, n, comments, tickC, tickerStopped, ctxDone,
                   closes, onceDone, onceM, stopStep, stopCalls, errsSent,
                   ticksSeen, sendLog, hwmVars, cfgVars>>

\* "errsCh <- err" completes: a receiver took the error
RecvErr ==
    /\ pc = "sendErr" /\ closes["errsCh"] = 0
    /\ errsSent' = errsSent + 1
    /\ GoTo(AfterTick)
    /\ UNCHANGED <<variant, opts, streamConfig, n, oldIDs, newIDs, items,
                   comments, idx, tickC, tickerStopped, ctxDone, closes,
                   onceDone, onceM, stopStep, stopCalls, fetches, fetchLog, cursors, seenAtFetch, sendLog,
                   firstPage, sentPrev, sentTick, prevTick, recorded, ticksSeen,
                   hwmVars, cfgVars>>

\* "commentsCh <- item" completes: a receiver took the item; the loop goes on
RecvItem ==
    /\ variant \in OneListVariants
    /\ pc = "sendItem" /\ closes[ItemChan(variant)] = 0
    /\ sentTick' = sentTick \cup {[ch |-> ItemChan(variant),
                                   item |-> SentItem(items, idx)]}
    /\ sendLog' = Append(sendLog, Sent(IDsOf(items)[idx]))
    /\ LET r == LoopStep(IDsOf(items), idx + 1, oldIDs, newIDs,
                         streamConfig.DiscardInitial)
       IN  /\ SetIDs(r)
           /\ idx' = idx + 1
           /\ GoTo(IF r.send THEN "sendItem" ELSE AfterTick)
    /\ UNCHANGED <<variant, opts, n, items, comments, tickC, tickerStopped,
                   ctxDone, closes, onceDone, onceM, stopStep, stopCalls,
                   fetches, fetchLog, cursors, seenAtFetch, firstPage, sentPrev, prevTick, errsSent,
                   ticksSeen, hwmVars, cfgVars>>

\* InboxUnread: "if post.IsComment { commentsCh <- post } else { dmsCh <- post }"
MsgChan(m) == IF m.IsComment THEN "commentsCh" ELSE "dmsCh"

\* The channel the goroutine is sending on, "" when it is not sending.
SendingOn ==
    CASE pc = "sendErr"     -> "errsCh"
      [] pc = "sendCtxErr"  -> "errsCh"
      [] pc = "sendItem"    -> ItemChan(variant)
      [] pc = "sendPost"    -> "postsCh"
      [] pc = "sendComment" -> "commentsCh"
      [] pc = "sendMsg"     -> MsgChan(items[idx])
      [] OTHER              -> ""

\* A send on a channel that stop() has closed panics; the deferred stop() runs
\* and the process dies.
SendOnClosed ==
    /\ SendingOn # ""
    /\ closes[SendingOn] > 0
    /\ GoTo("exitPanic")
    /\ UNCHANGED <<variant, opts, streamConfig, n, oldIDs, newIDs, items,
                   comments, idx, tickC, tickerStopped, ctxDone, closes,
                   onceDone, onceM, stopStep, stopCalls, histVars, hwmVars, cfgVars>>

\* ---- construction
HwmUnused == NewHighWaterMark(0, <<>>)

StreamInit(v, discards, budgets) ==
    /\ variant = v
    /\ opts \in [DiscardInitial : discards, MaxRequests : budgets]
    /\ streamConfig = opts
    /\ pc = IF v = "Posts" THEN "start" ELSE "select"
    /\ n = 0
    /\ oldIDs = {} /\ newIDs = {}
    /\ items = <<>> /\ comments = <<>> /\ idx = 0
    /\ tickC = FALSE /\ tickerStopped = FALSE /\ ctxDone = FALSE
    /\ closes = [c \in {Chans(v)[i] : i \in 1..Len(Chans(v))} |-> 0]
    /\ onceDone = FALSE /\ onceM = "none"
    /\ stopPc = [c \in Callers |-> "idle"]
    /\ stopStep = 0 /\ stopCalls = 0
    /\ fetches = 0 /\ fetchLog = <<>>
    /\ firstPage = [ok |-> FALSE, items |-> <<>>, comments |-> <<>>]
    /\ sentPrev = {} /\ sentTick = {} /\ prevTick = {}
    /\ errsSent = 0
    /\ recorded = <<>>
    /\ ticksSeen = 0
    /\ cursors = <<>>
    /\ seenAtFetch = {}
    /\ sendLog = <<>>

Init ==
    /\ StreamInit("doStream", BOOLEAN, 0..MaxBudget)
    /\ HwmUnused
    /\ ConfigUnused

Next ==
    \/ Tick
    \/ Cancel
    \/ \E c \in ExtCallers : StopCall(c)
    \/ \E c \in Callers : OnceDo(c)
    \/ \E c \in Callers : StopBody(c)
    \/ SelectTick
    \/ SelectCtxDone
    \/ GetThingErr
    \/ \E page \in PagesOf(Things, itemLimit) : GetThingOk(page)
    \/ RecvErr
    \/ RecvItem
    \/ SendOnClosed

Spec == Init /\ [][Next]_vars


\* ============================================== StreamService.Reported
PostIDs == {"a", "b"}
CommentIDs == {"c"}
ReportCounts == {1, 2}

ReportedPosts == {Thing(id, k) : id \in PostIDs, k \in ReportCounts}
ReportedComments == {Thing(id, k) : id \in CommentIDs, k \in ReportCounts}

\* "%d": the decimal digits of k >= 0
RECURSIVE Itoa(_)
Itoa(k) ==
    LET digit == <<"0", "1", "2", "3", "4", "5", "6", "7", "8", "9">>
    IN  IF k < 10 THEN digit[k + 1] ELSE Itoa(k \div 10) \o digit[(k % 10) + 1]

\* id := fmt.Sprintf("%s%d", post.ID, post.NumReports)
Sprintf(t) == t.ID \o Itoa(t.NumReports)

ReportedIDsOf(its) == [i \in 1..Len(its) |-> Sprintf(its[i])]

\* The two range loops of one tick, from position i of the posts (inPosts) or
\* of the comments, up to the next send or to the end of the tick.
RangeReported(inPosts, i, old, new, disc) ==
    LET p == IF inPosts THEN LoopStep(ReportedIDsOf(items'), i, old, new, disc)
                        ELSE [old |-> old, new |-> new, disc |-> disc,
                              send |-> FALSE, rec |-> <<>>]
        c == IF inPosts THEN LoopStep(ReportedIDsOf(comments'), 1, p.old, p.new, p.disc)
                        ELSE LoopStep(ReportedIDsOf(comments'), i, old, new, disc)
    IN  IF p.send
        THEN [ids |-> p, to |-> "sendPost", idx |-> i]
        ELSE [ids |-> [c EXCEPT !.rec = p.rec \o c.rec],
              to |-> IF c.send THEN "sendComment" ELSE AfterTick,
              idx |-> IF inPosts THEN 1 ELSE i]

\* select: case <-ctx.Done(): errsCh <- ctx.Err()
RepSelectCtxDone ==
    /\ variant \in {"Reported", "Inbox"}
    /\ pc = "select" /\ ctxDone
    /\ pc' = "sendCtxErr"
    /\ UNCHANGED <<variant, opts, streamConfig, n, oldIDs, newIDs, items,
                   comments, idx, tickC, tickerStopped, ctxDone, closes,
                   onceDone, onceM, stopPc, stopStep, stopCalls, histVars,
                   hwmVars, cfgVars>>

\* "errsCh <- ctx.Err()" completes, then return
RepRecvCtxErr ==
    /\ pc = "sendCtxErr" /\ closes["errsCh"] = 0
    /\ errsSent' = errsSent + 1
    /\ GoTo("exit")
    /\ UNCHANGED <<variant, opts, streamConfig, n, oldIDs, newIDs, items,
                   comments, idx, tickC, tickerStopped, ctxDone, closes,
                   onceDone, onceM, stopStep, stopCalls, fetches, fetchLog, cursors, seenAtFetch, sendLog,
                   firstPage, sentPrev, sentTick, prevTick, recorded, ticksSeen,
                   hwmVars, cfgVars>>

\* getReported returns posts and comments
RepGetOk(ps, cs) ==
    /\ variant = "Reported"
    /\ pc = "fetch"
    /\ NoteFetch("ok", ps, cs)
    /\ items' = ps
    /\ comments' = cs
    /\ LET r == RangeReported(TRUE, 1, oldIDs, newIDs, streamConfig.DiscardInitial)
       IN  /\ SetIDs(r.ids)
           /\ idx' = r.idx
           /\ GoTo(r.to)
    /\ UNCHANGED <<variant, opts, n, tickC, tickerStopped, ctxDone, closes,
                   onceDone, onceM, stopStep, stopCalls, errsSent, ticksSeen, sendLog,
                   hwmVars, cfgVars>>

\* "postsCh <- post" completes
RepRecvPost ==
    /\ pc = "sendPost" /\ closes["postsCh"] = 0
    /\ sentTick' = sentTick \cup {[ch |-> "postsCh", item |-> items[idx]]}
    /\ sendLog' = Append(sendLog, Sent(ReportedIDsOf(items)[idx]))
    /\ UNCHANGED <<items, comments>>
    /\ LET r == RangeReported(TRUE, idx + 1, oldIDs, newIDs,
                              streamConfig.DiscardInitial)
       IN  /\ SetIDs(r.ids)
           /\ idx' = r.idx
           /\ GoTo(r.to)
    /\ UNCHANGED <<variant, opts, n, tickC, tickerStopped, ctxDone, closes,
                   onceDone, onceM, stopStep, stopCalls, fetches, fetchLog, cursors, seenAtFetch,
                   firstPage, sentPrev, prevTick, errsSent, ticksSeen, hwmVars,
                   cfgVars>>

\* "commentsCh <- comment" completes
RepRecvComment ==
    /\ pc = "sendComment" /\ closes["commentsCh"] = 0
    /\ sentTick' = sentTick \cup {[ch |-> "commentsCh", item |-> comments[idx]]}
    /\ sendLog' = Append(sendLog, Sent(ReportedIDsOf(comments)[idx]))
    /\ UNCHANGED <<items, comments>>
    /\ LET r == RangeReported(FALSE, idx + 1, oldIDs, newIDs,
                              streamConfig.DiscardInitial)
       IN  /\ SetIDs(r.ids)
           /\ idx' = r.idx
           /\ GoTo(r.to)
    /\ UNCHANGED <<variant, opts, n, tickC, tickerStopped, ctxDone, closes,
                   onceDone, onceM, stopStep, stopCalls, fetches, fetchLog, cursors, seenAtFetch,
                   firstPage, sentPrev, prevTick, errsSent, ticksSeen, hwmVars,
                   cfgVars>>

ReportedInit ==
    /\ StreamInit("Reported", BOOLEAN, {0, 1})
    /\ HwmUnused
    /\ ConfigUnused

ReportedNext ==
    \/ Tick
    \/ Cancel
    \/ \E c \in Callers : OnceDo(c)
    \/ \E c \in Callers : StopBody(c)
    \/ SelectTick
    \/ RepSelectCtxDone
    \/ RepRecvCtxErr
    \/ GetThingErr
    \/ \E ps \in PagesOf(ReportedPosts, itemLimit),
          cs \in PagesOf(ReportedComments, itemLimit) : RepGetOk(ps, cs)
    \/ RecvErr
    \/ RepRecvPost
    \/ RepRecvComment

SpecReported == ReportedInit /\ [][ReportedNext]_vars


\* ---- Reported over posts whose identifiers end in a digit or not, with one
\* or two digits of reports
DigitPostIDs == {"a", "a1"}
DigitReportCounts == {1, 11}
DigitPosts == {Thing(id, k) : id \in DigitPostIDs, k \in DigitReportCounts}

DigitInit ==
    /\ StreamInit("Reported", BOOLEAN, {0, 1})
    /\ HwmUnused
    /\ ConfigUnused

DigitNext ==
    \/ Tick
    \/ \E c \in Callers : OnceDo(c)
    \/ \E c \in Callers : StopBody(c)
    \/ SelectTick
    \/ GetThingErr
    \/ \E ps \in PagesOf(DigitPosts, itemLimit) : RepGetOk(ps, <<>>)
    \/ RecvErr
    \/ RepRecvPost

SpecDigits == DigitInit /\ [][DigitNext]_vars


\* ============================================ StreamService.InboxUnread
Msg(id, isComment) == [ID |-> id, IsComment |-> isComment]

InboxComments == {Msg("c", TRUE)}
InboxDMs == {Msg("d", FALSE)}

\* getInboxUnread: append(comments, directMessages...)
InboxPage(cs, ds) == cs \o ds

\* getInboxUnread returns the messages: range over them up to the first send
\* or break
InboxGetOk(cs, ds) ==
    /\ variant = "Inbox"
    /\ pc = "fetch"
    /\ NoteFetch("ok", InboxPage(cs, ds), <<>>)
    /\ items' = InboxPage(cs, ds)
    /\ LET r == LoopStep(IDsOf(items'), 1, oldIDs, newIDs,
                         streamConfig.DiscardInitial)
       IN  /\ SetIDs(r)
           /\ idx' = 1
           /\ GoTo(IF r.send THEN "sendMsg" ELSE AfterTick)
    /\ UNCHANGED <<variant, opts, n, comments, tickC, tickerStopped, ctxDone,
                   closes, onceDone, onceM, stopStep, stopCalls, errsSent,
                   ticksSeen, sendLog, hwmVars, cfgVars>>

\* "commentsCh <- post" or "dmsCh <- post" completes; the loop goes on
InboxRecvMsg ==
    /\ variant = "Inbox"
    /\ pc = "sendMsg" /\ closes[MsgChan(items[idx])] = 0
    /\ sentTick' = sentTick \cup {[ch |-> MsgChan(items[idx]), item |-> items[idx]]}
    /\ sendLog' = Append(sendLog, Sent(IDsOf(items)[idx]))
    /\ LET r == LoopStep(IDsOf(items), idx + 1, oldIDs, newIDs,
                         streamConfig.DiscardInitial)
       IN  /\ SetIDs(r)
           /\ idx' = idx + 1
           /\ GoTo(IF r.send THEN "sendMsg" ELSE AfterTick)
    /\ UNCHANGED <<variant, opts, n, items, comments, tickC, tickerStopped,
                   ctxDone, closes, onceDone, onceM, stopStep, stopCalls,
                   fetches, fetchLog, cursors, seenAtFetch, firstPage, sentPrev,
                   prevTick, errsSent, ticksSeen, hwmVars, cfgVars>>

InboxInit ==
    /\ StreamInit("Inbox", BOOLEAN, {0, 1})
    /\ HwmUnused
    /\ ConfigUnused

InboxNext ==
    \/ Tick
    \/ Cancel
    \/ \E c \in Callers : OnceDo(c)
    \/ \E c \in Callers : StopBody(c)
    \/ SelectTick
    \/ RepSelectCtxDone
    \/ RepRecvCtxErr
    \/ GetThingErr
    \/ \E cs \in PagesOf(InboxComments, itemLimit),
          ds \in PagesOf(InboxDMs, itemLimit) : InboxGetOk(cs, ds)
    \/ RecvErr
    \/ InboxRecvMsg

SpecInbox == InboxInit /\ [][InboxNext]_vars


\* ---- a stream that runs long enough for the identifier set to roll over.
\* Identifiers are numbered in the order in which the engine first records
\* them: a page is a run of identifiers never returned before, followed or not
\* by one that was recorded earlier (the first ever, or the latest).
MaxOf(q) == IF q = <<>> THEN 0
            ELSE CHOOSE m \in {q[i] : i \in 1..Len(q)} :
                     \A i \in 1..Len(q) : q[i] <= m

FreshRun(k, j) == [i \in 1..j |-> Thing(k + i, 0)]

LongPages ==
    LET k == MaxOf(recorded) IN
    {FreshRun(k, j) : j \in 0..itemLimit}
        \cup {Append(FreshRun(k, j), Thing(o, 0)) :
                 j \in 0..(itemLimit - 1), o \in {1, k} \cap 1..k}

LongInit ==
    /\ StreamInit("doStream", {FALSE}, {MaxLongRequests})
    /\ HwmUnused
    /\ ConfigUnused

LongNext ==
    \/ Tick
    \/ OnceDo("engine")
    \/ StopBody("engine")
    \/ SelectTick
    \/ \E page \in LongPages : GetThingOk(page)
    \/ RecvItem

SpecLong == LongInit /\ [][LongNext]_vars


\* ---- the first definition of StreamService.Posts
PostsInit ==
    /\ StreamInit("Posts", BOOLEAN, 0..MaxBudget)
    /\ HwmUnused
    /\ ConfigUnused

PostsNext ==
    \/ Tick
    \/ \E c \in Callers : OnceDo(c)
    \/ \E c \in Callers : StopBody(c)
    \/ PostsFirstIteration
    \/ SelectTick
    \/ GetThingErr
    \/ \E page \in PagesOf(Things, itemLimit) : GetThingOk(page)
    \/ RecvErr
    \/ RecvItem

SpecPosts == PostsInit /\ [][PostsNext]_vars


\* ---- a stream started with or without a starting cursor among its options
CursorInit ==
    /\ StreamInit("doStream", BOOLEAN, 0..MaxBudget)
    /\ HwmUnused
    /\ cfgBefore = NewStreamConfig
    /\ \/ optLog = <<>> /\ cfg = NewStreamConfig
       \/ \E v \in FullIDs :
             /\ optLog = <<Opt("WithStartFromFullID", 0, <<v>>)>>
             /\ cfg = WithStartFromFullID(NewStreamConfig, v)

CursorNext ==
    \/ Tick
    \/ OnceDo("engine")
    \/ StopBody("engine")
    \/ SelectTick
    \/ GetThingErr
    \/ \E page \in PagesOf(Things, itemLimit) : GetThingOk(page)
    \/ RecvErr
    \/ RecvItem

SpecCursor == CursorInit /\ [][CursorNext]_vars


\* ---- the recency stack on its own
StreamUnused ==
    /\ StreamInit("doStream", {FALSE}, {0})

HwmInit ==
    /\ StreamUnused
    /\ ConfigUnused
    /\ \E c \in 0..MaxCap, its \in SeqsUpTo(HwmIDs, MaxSeeds) : NewHighWaterMark(c, its)

HwmNext ==
    \/ \E item \in HwmIDs : Push(item) /\ UNCHANGED <<engineVars, histVars, cfgVars>>
    \/ Pop /\ UNCHANGED <<engineVars, histVars, cfgVars>>
    \/ Top /\ UNCHANGED <<engineVars, histVars, cfgVars>>

SpecHwm == HwmInit /\ [][HwmNext]_vars


\* ---- the stream options on their own
ConfigInit ==
    /\ StreamUnused
    /\ HwmUnused
    /\ ConfigUnused

ConfigNext ==
    \/ \E v \in Durations : OptInterval(v)
    \/ OptDiscardInitial
    \/ \E v \in Budgets : OptMaxRequests(v)
    \/ \E v \in FullIDs : OptStartFromFullID(v)
    \/ \E its \in SeqsUpTo(FullIDs, 1) : OptHighWaterMark(1, its)
    \/ \E f \in GetFuncs : OptGetFunc(f)
    \/ OptDumbLogic

SpecConfig == ConfigInit /\ [][ConfigNext]_vars


\* ================================================================ claims
AllSent == sentPrev \cup sentTick

ChanSet == DOMAIN closes

\* Some call of stop() has returned: an external one, or the goroutine's
\* deferred one.
StopReturned ==
    \/ pc \in {"done", "panicked"}
    \/ stopCalls > Cardinality({c \in ExtCallers : stopPc[c] # "idle"})

\* The goroutine has finished the work of a tick whose fetch succeeded.
TickOver ==
    /\ pc \in {"select", "exit", "done"}
    /\ fetches > 0
    /\ fetchLog[fetches] = "ok"

\* C1: whatever the goroutine is doing when stop() is called from outside, it
\* never sends on a channel stop() has closed: no panic is reachable.
C1_StopNeverPanics == pc \notin {"exitPanic", "panicked"}

\* C2: however many times stop() is called, by external callers one after the
\* other or at once and by the goroutine's deferred call, no channel is closed
\* more than once, and once any call has returned every channel has been
\* closed exactly once and the ticker is stopped.
C2_ClosedExactlyOnce ==
    /\ \A ch \in ChanSet : closes[ch] <= 1
    /\ StopReturned => /\ \A ch \in ChanSet : closes[ch] = 1
                       /\ tickerStopped
                       /\ onceDone

C2_Witness ==
    /\ pc = "done"
    /\ stopCalls >= 2
    /\ \A c \in Callers : stopPc[c] = "idle"
    /\ \A ch \in ChanSet : closes[ch] = 1

\* C3: with a budget M > 0 the engine never fetches more than M times, and
\* when it ends without cancellation and without an external stop it has
\* fetched exactly M times, whatever the outcomes, and all its channels are
\* closed.
C3_BudgetExact ==
    opts.MaxRequests > 0 =>
        /\ fetches <= opts.MaxRequests
        /\ n <= opts.MaxRequests
        /\ (pc = "done" /\ ~ctxDone /\ stopCalls = 0) =>
               /\ fetches = opts.MaxRequests
               /\ \A ch \in ChanSet : closes[ch] = 1
               /\ tickerStopped

C3_Witness ==
    /\ opts.MaxRequests = 2
    /\ pc = "done" /\ ~ctxDone /\ stopCalls = 0
    /\ fetchLog = <<"err", "ok">>
    /\ \A ch \in ChanSet : closes[ch] = 1

\* C4: with discard-initial set, no item of a first page of N >= 1 items is
\* ever sent on the item channel, on that tick or on a later one.
C4_FirstPageNeverSent ==
    (opts.DiscardInitial /\ firstPage.ok) =>
        \A s \in AllSent : \A i \in 1..Len(firstPage.items) :
            s.item # firstPage.items[i]

\* C5: on the Reported stream with discard-initial set, a first fetch that
\* returns posts and comments sends nothing on either channel during that tick.
C5_ReportedFirstFetchSilent ==
    (opts.DiscardInitial /\ fetches = 1 /\ firstPage.ok
        /\ firstPage.items # <<>> /\ firstPage.comments # <<>>) =>
        sentTick = {}

\* C6: on the Reported stream, when a tick's work is over, every item of the
\* page that was sent in the tick before with a smaller report count has been
\* sent again in this tick, and no item of the page sent in the tick before
\* with the same report count has been.
PageThings == {items[i] : i \in 1..Len(items)} \cup {comments[i] : i \in 1..Len(comments)}

C6_RereportedRedelivered ==
    TickOver =>
        \A y \in PageThings :
            /\ (\E s \in prevTick : s.item.ID = y.ID /\ s.item.NumReports < y.NumReports)
                   => \E s \in sentTick : s.item = y
            /\ (\E s \in prevTick : s.item = y)
                   => ~\E s \in sentTick : s.item = y

\* C7: on a stack made empty with capacity C >= 1, Len never exceeds C, and
\* after any run of pushes followed by pops, the values popped so far followed
\* by the marks from the top down are the last C pushed identifiers, newest
\* first (then the empty identifier for each further Pop).
C7_PushKeepsLastC ==
    (cap >= 1 /\ seeds = <<>>) =>
        /\ hwmLen(marks) <= cap
        /\ phase # "mixed" =>
              LET want == Reverse(LastN(pushed, cap))
                  got  == popLog \o Reverse(marks)
              IN  /\ Len(got) >= Len(want)
                  /\ \A i \in 1..Len(got) :
                        got[i] = IF i <= Len(want) THEN want[i] ELSE ""

C7_Witness ==
    /\ cap = 2 /\ seeds = <<>>
    /\ pushed = <<"A", "B", "C">>
    /\ popLog = <<"C">>
    /\ marks = <<"B">>

\* C8: the first Push on a stack seeded with more identifiers than its
\* capacity C brings Len down to C: the pushed identifier on top of the most
\* recent seeds.
C8_OverSeededPushEnforcesCap ==
    /\ (lastOp.call = "new" /\ Len(seeds) > cap) => hwmLen(marks) = Len(seeds)
    /\ (lastOp.call = "push" /\ ~lastOp.panicked /\ cap >= 1
          /\ ops = 1 /\ Len(seeds) > cap) =>
           /\ hwmLen(marks) = cap
           /\ marks = LastN(Append(seeds, lastOp.item), cap)

C10_PopOnEmpty ==
    (lastOp.call = "pop" /\ lastOp.before = <<>>) =>
        /\ ~lastOp.panicked
        /\ lastOp.ret = ""
        /\ marks = <<>>

C10_Witness ==
    /\ lastOp.call = "pop" /\ lastOp.before = <<>> /\ ~lastOp.panicked
    /\ lastOp.ret = ""
    /\ pushed # <<>>
    /\ Len(popLog) = Len(pushed) + 1

\* C11: Top leaves the stack as it was and does not fail; on a non-empty stack
\* it returns the identifier on top (the most recently pushed one that is still
\* held), on an empty stack the empty identifier.
C11_TopNeverFails ==
    lastOp.call = "top" =>
        /\ ~lastOp.panicked
        /\ marks = lastOp.before
        /\ lastOp.ret = IF lastOp.before = <<>> THEN ""
                        ELSE lastOp.before[Len(lastOp.before)]

\* C12: each of the last T = 10 x itemLimit identifiers the engine recorded,
\* the one whose recording made the set roll over included, is in oldIDs or in
\* newIDs.
C12_RecentStillKnown ==
    \A i \in 1..Len(recorded) :
        i > Len(recorded) - rolloverAt => recorded[i] \in oldIDs \cup newIDs

C12_Witness ==
    /\ Len(recorded) = 2 * rolloverAt
    /\ newIDs = {}
    /\ recorded[Len(recorded)] \in oldIDs
    /\ recorded[1] \notin oldIDs

\* C13: newIDs holds fewer than T = 10 x itemLimit identifiers, oldIDs at most
\* T, the two together at most 2T.
C13_GenerationsBounded ==
    /\ Cardinality(newIDs) < rolloverAt
    /\ Cardinality(oldIDs) <= rolloverAt
    /\ Cardinality(oldIDs \cup newIDs) <= 2 * rolloverAt

C13_Witness ==
    /\ Cardinality(oldIDs) = rolloverAt
    /\ Cardinality(newIDs) = rolloverAt - 1

\* C14: no fetch happens before the goroutine has received a first tick.
C14_NoFetchBeforeFirstTick == fetches >= 1 => ticksSeen >= 1

\* C15: when the goroutine leaves its select because ctx is done, it goes on to
\* send the cancellation cause on errsCh, and that send completes once, after
\* which the goroutine returns.
C15_CancelSendsCause ==
    [][/\ (pc = "select" /\ pc' \notin {"select", "fetch"}) =>
              (ctxDone /\ pc' = "sendCtxErr")
       /\ (pc = "sendCtxErr" /\ pc' # pc) =>
              (errsSent' = errsSent + 1 /\ pc' = "exit")]_vars

\* The request budget is finite and used up.
BudgetSpent == opts.MaxRequests > 0 /\ n >= opts.MaxRequests

\* C16: a fetch that fails changes neither the identifier set nor the discard
\* flag and sends no item; while errsCh is open its error is received once, and
\* the goroutine then goes back to its select, or returns when the budget is
\* finite and spent.
C16_FailedFetchNonFatal ==
    [][/\ (pc = "fetch" /\ pc' = "sendErr") =>
              /\ UNCHANGED <<oldIDs, newIDs, streamConfig, errsSent>>
              /\ sentTick' = {}
       /\ pc = "sendErr" =>
              /\ UNCHANGED <<oldIDs, newIDs, streamConfig, sentTick, fetches>>
              /\ pc' \in {"sendErr", "select", "exit", "exitPanic"}
              /\ pc' = "sendErr" => errsSent' = errsSent
              /\ pc' = "exitPanic" => closes["errsCh"] > 0
              /\ pc' \in {"select", "exit"} =>
                     /\ closes["errsCh"] = 0
                     /\ errsSent' = errsSent + 1
                     /\ pc' = "exit" <=> BudgetSpent]_vars

C16_Witness ==
    /\ fetchLog = <<"ok", "err", "err">>
    /\ opts.MaxRequests = 0
    /\ pc = "select"
    /\ errsSent = 2
    /\ newIDs # {}
    /\ sentPrev # {} /\ sentTick = {}
    /\ stopCalls = 0 /\ ~ctxDone

\* A step of the goroutine other than the completion of a send on errsCh.
StepWithoutErrReceiver ==
    \/ SelectTick
    \/ SelectCtxDone
    \/ GetThingErr
    \/ \E page \in PagesOf(Things, itemLimit) : GetThingOk(page)
    \/ RecvItem
    \/ SendOnClosed

\* C17: an error waiting on errsCh does not hold the goroutine: it has a next
\* step that needs no receiver on errsCh.
C17_ErrorsNeverBlock ==
    (pc = "sendErr" /\ closes["errsCh"] = 0) => ENABLED StepWithoutErrReceiver

\* The position of thing x in page its.
PosIn(its, x) == CHOOSE i \in 1..Len(its) : its[i] = x

\* C18: every item sent comes from the page of the latest fetch and from a
\* later position of it than the items already sent on the same channel in this
\* tick; the sends of a tick are over before the next fetch starts, which
\* happens only while the goroutine is not sending.
C18_DeliveredInFetchOrder ==
    [][/\ \A e \in sentTick' \ sentTick :
              /\ fetches' = fetches
              /\ \E i \in 1..Len(items) : items[i] = e.item
              /\ \A s \in sentTick :
                     s.ch = e.ch => PosIn(items, s.item) < PosIn(items, e.item)
       /\ sentPrev' # sentPrev =>
              (fetches' = fetches + 1 /\ sentPrev' = sentPrev \cup sentTick)
       /\ fetches' # fetches =>
              (fetches' = fetches + 1 /\ pc = "fetch" /\ SendingOn = "")]_vars

C18_Witness ==
    /\ fetches = 2
    /\ items = <<Thing("b", 0), Thing("a", 0)>>
    /\ sentTick = {[ch |-> "commentsCh", item |-> Thing("b", 0)],
                   [ch |-> "commentsCh", item |-> Thing("a", 0)]}
    /\ pc = "select"

\* The last option applied.
LastOpt == optLog[Len(optLog)]

\* An interval or a request budget of zero or less.
InvalidOpt(o) ==
    /\ o.name \in {"WithStreamInterval", "WithStreamMaxRequests"}
    /\ o.v <= 0

\* C19: once WithStreamMaxRequests has been applied with a value of zero or
\* less, the configuration's budget is unbounded, whatever was applied before.
C19_NonPositiveBudgetUnbounded ==
    (optLog # <<>> /\ LastOpt.name = "WithStreamMaxRequests" /\ LastOpt.v <= 0) =>
        infinite(cfg.MaxRequests)

CreatedOf(id) == IF id = "a" THEN 1 ELSE 2

\* The starting cursor the options configured, "" when they configured none.
StartCursor(c) ==
    IF c.HighWaterMark.marks = <<>> THEN ""
    ELSE c.HighWaterMark.marks[Len(c.HighWaterMark.marks)]

\* The cursor the next fetch is to receive: the identifier of the newest item
\* processed so far, the starting cursor while there is none.
ExpectedCursor ==
    IF recorded = <<>> THEN StartCursor(cfg)
    ELSE LET S == {recorded[i] : i \in 1..Len(recorded)}
         IN  CHOOSE x \in S : \A y \in S : CreatedOf(y) <= CreatedOf(x)

\* C21: each fetch is invoked with the starting cursor as long as no item was
\* processed, and with the identifier of the newest item processed afterwards.
C21_FetchGetsCursor ==
    [][fetches' = fetches + 1 => cursors'[fetches'] = ExpectedCursor]_vars

\* The positions of the page whose dedup identifier was known when the page
\* was fetched.
SeenPositions == {i \in 1..Len(items) : IDsOf(items)[i] \in seenAtFetch}

\* C22: when the work of a tick is over and the page held an identifier known
\* at its fetch, at position j the first, then the items before j and no
\* others were sent in the tick and were added to the identifier set.
C22_StopsAtFirstSeen ==
    (TickOver /\ SeenPositions # {}) =>
        LET j == CHOOSE k \in SeenPositions : \A l \in SeenPositions : k <= l
        IN  /\ {s.item : s \in sentTick} = {items[i] : i \in 1..(j - 1)}
            /\ oldIDs \cup newIDs =
                   seenAtFetch \cup {IDsOf(items)[i] : i \in 1..(j - 1)}

C22_Witness ==
    /\ TickOver
    /\ items = <<Thing("a", 0), Thing("b", 0)>>
    /\ seenAtFetch = {"a"}
    /\ sentTick = {}
    /\ "b" \notin oldIDs \cup newIDs

\* C23: with discard-initial set, when the first fetch failed or returned an
\* empty page, a later page none of whose identifiers was known at its fetch has
\* been sent whole once the work of its tick is over.
C23_DiscardOnlyFirstPage ==
    (/\ opts.DiscardInitial
     /\ fetches >= 2
     /\ (~firstPage.ok \/ firstPage.items = <<>>)
     /\ TickOver
     /\ SeenPositions = {}) =>
        \A i \in 1..Len(items) : \E s \in sentTick : s.item = items[i]

\* C24: once ctx is done, the goroutine waiting in its select does not go on
\* to a fetch, whether or not ticker.C holds a tick.
C24_CancelledNeverFetches ==
    [][(pc = "select" /\ ctxDone) => pc' # "fetch"]_vars

\* An external call of stop() has returned.
ExternalStopReturned ==
    stopCalls > Cardinality({c \in ExtCallers : stopPc[c] # "idle"})

\* A step of the goroutine, the deferred stop() included.
GoroutineStep ==
    \/ StepWithoutErrReceiver
    \/ RecvErr
    \/ OnceDo("engine")
    \/ StopBody("engine")

\* C25: after stop() has returned to its caller the goroutine fetches no more,
\* and as long as it has not ended it has a step to take towards its end
\* without ctx being cancelled.
C25_StopEndsGoroutine ==
    [][ExternalStopReturned =>
          /\ fetches' = fetches
          /\ (pc \notin {"done", "panicked"} /\ ~ctxDone) => ENABLED GoroutineStep]_vars

\* C26: in the inbox stream without discard-initial, once the work of a tick is
\* over every message of its page whose identifier was not known at the fetch
\* has been sent, a comment reply on commentsCh and any other on dmsCh.
C26_InboxDeliversEveryUnseen ==
    (variant = "Inbox" /\ ~opts.DiscardInitial /\ TickOver) =>
        \A i \in 1..Len(items) :
            IDsOf(items)[i] \notin seenAtFetch =>
                [ch |-> IF items[i].IsComment THEN "commentsCh" ELSE "dmsCh",
                 item |-> items[i]] \in sentTick

\* C27: on the Reported stream without discard-initial, when the work of a
\* tick is over, the first post of its page has been sent in this tick unless a
\* post with the same identifier and the same report count was sent in an
\* earlier one: an event never delivered is not taken for a duplicate.
C27_NewEventNotDropped ==
    (variant = "Reported" /\ ~opts.DiscardInitial /\ TickOver /\ items # <<>>) =>
        \/ \E s \in sentPrev : s.item = items[1]
        \/ \E s \in sentTick : s.item = items[1]

\* The identifiers other than id recorded after the p-th send and before the
\* recording that led to the q-th.
RecordedBetween(p, q, id) ==
    {recorded[i] : i \in (sendLog[p].at + 1)..(sendLog[q].at - 1)} \ {id}

\* C28: the latest send repeats the identifier of an earlier one only if at
\* least T = 10 x itemLimit other identifiers were recorded between the two
\* (every send was the latest one once, so this covers every pair of sends);
\* with fewer than T identifiers recorded in all, no identifier was sent twice.
C28_NoRedeliveryInWindow ==
    LET q == Len(sendLog) IN
    /\ \A p \in 1..(q - 1) :
           sendLog[p].id = sendLog[q].id =>
               Cardinality(RecordedBetween(p, q, sendLog[q].id)) >= rolloverAt
    /\ Cardinality({recorded[i] : i \in 1..Len(recorded)}) < rolloverAt =>
           \A p \in 1..(q - 1) : sendLog[p].id # sendLog[q].id

C28_Witness ==
    /\ Len(sendLog) > 1
    /\ sendLog[1].id = 1
    /\ sendLog[Len(sendLog)].id = 1
    /\ Cardinality(RecordedBetween(1, Len(sendLog), 1)) >= rolloverAt

=============================================================================
